--------------------------- MODULE Spec2Model ---------------------------
(***************************************************************************)
(* Model of the cloudflare-worker-myip edge service: the CORS engine       *)
(* (cors.ts: resolveAllowOrigin, applyCors, buildPreflightResponse), the   *)
(* dispatcher (handler.ts: handleRequest, handleOptions) and the entry     *)
(* point (worker.ts: fetch).                                               *)
(*                                                                         *)
(* Text that the code transforms (upper/lower-casing, trimming, splitting, *)
(* joining, regular-expression tests) is a sequence of one-character       *)
(* strings, so that each conversion is computed as the code computes it.   *)
(* Header collections are partial functions from the lower-cased header    *)
(* name to the value: a header is present iff its name is in the DOMAIN.   *)
(***************************************************************************)
EXTENDS Naturals, Sequences, FiniteSets, TLC

VARIABLES config, request, upstream, response, second, pc, calls

vars == <<config, request, upstream, response, second, pc, calls>>

(***************************************************************************)
(* Bounds of the model.                                                    *)
(***************************************************************************)
\* Largest number of tokens in a pre-existing Vary header.
MaxVaryTokens == 2
\* Largest number of comma-separated entries in Access-Control-Request-Headers.
MaxReqHeaders == 2

(***************************************************************************)
(* Characters and the string functions of the JavaScript runtime.          *)
(***************************************************************************)
LowerAlpha == <<"a", "b", "c", "d", "e", "f", "g", "h", "i", "j", "k", "l", "m", "n", "o", "p", "q", "r", "s", "t", "u", "v", "w", "x", "y", "z">>
UpperAlpha == <<"A", "B", "C", "D", "E", "F", "G", "H", "I", "J", "K", "L", "M", "N", "O", "P", "Q", "R", "S", "T", "U", "V", "W", "X", "Y", "Z">>
Digits == <<"0", "1", "2", "3", "4", "5", "6", "7", "8", "9">>

Range(s) == {s[i] : i \in DOMAIN s}

\* String.prototype.toUpperCase / toLowerCase on one character.
ToUpperChar(c) ==
  IF c \in Range(LowerAlpha)
    THEN UpperAlpha[CHOOSE i \in DOMAIN LowerAlpha : LowerAlpha[i] = c]
    ELSE c
ToLowerChar(c) ==
  IF c \in Range(UpperAlpha)
    THEN LowerAlpha[CHOOSE i \in DOMAIN UpperAlpha : UpperAlpha[i] = c]
    ELSE c
toUpperCase(s) == [i \in DOMAIN s |-> ToUpperChar(s[i])]
toLowerCase(s) == [i \in DOMAIN s |-> ToLowerChar(s[i])]

\* White space as String.prototype.trim sees it.
IsSpace(c) == c \in {" ", "\t", "\n", "\r"}
\* \w of a regular expression: [A-Za-z0-9_].
IsWordChar(c) == c \in Range(LowerAlpha) \cup Range(UpperAlpha) \cup Range(Digits) \cup {"_"}

\* String.prototype.trim.
trim(s) ==
  LET keep == {i \in DOMAIN s : ~IsSpace(s[i])}
  IN IF keep = {} THEN <<>>
     ELSE LET lo == CHOOSE i \in keep : \A j \in keep : i <= j
              hi == CHOOSE i \in keep : \A j \in keep : j <= i
          IN SubSeq(s, lo, hi)

\* String.prototype.split(sep) for a one-character separator: "" splits to [""].
RECURSIVE split(_, _)
split(s, sep) ==
  LET hits == {i \in DOMAIN s : s[i] = sep}
  IN IF hits = {} THEN <<s>>
     ELSE LET k == CHOOSE i \in hits : \A j \in hits : i <= j
          IN <<SubSeq(s, 1, k - 1)>> \o split(SubSeq(s, k + 1, Len(s)), sep)

\* Array.prototype.join(', ').
RECURSIVE join(_)
join(list) ==
  IF list = <<>> THEN <<>>
  ELSE IF Len(list) = 1 THEN list[1]
  ELSE list[1] \o <<",", " ">> \o join(Tail(list))

\* Array.prototype.filter(Boolean) on strings: drops the empty ones.
filterBoolean(list) == SelectSeq(list, LAMBDA h : h # <<>>)

\* Array.prototype.includes: strict equality with some element.
includes(list, x) == \E i \in DOMAIN list : list[i] = x

\* String(n) for a non-negative integer.
RECURSIVE String(_)
String(n) == IF n < 10 THEN <<Digits[n + 1]>> ELSE String(n \div 10) \o <<Digits[(n % 10) + 1]>>

\* /\bOrigin\b/i.test(s): "origin" in any casing, with a word boundary on
\* both sides (start/end of text, or a neighbour that is not a word character).
TestOriginRegex(s) ==
  \E i \in 1..Len(s) :
    /\ i + 5 <= Len(s)
    /\ toLowerCase(SubSeq(s, i, i + 5)) = <<"o", "r", "i", "g", "i", "n">>
    /\ (i = 1 \/ ~IsWordChar(s[i - 1]))
    /\ (i + 5 = Len(s) \/ ~IsWordChar(s[i + 6]))

(***************************************************************************)
(* The Headers class: get/has/set on a case-insensitive collection.        *)
(***************************************************************************)
NoHeaders == [n \in {} |-> <<>>]
has(headers, name) == name \in DOMAIN headers
set(headers, name, value) == (name :> value) @@ headers
\* Headers.get returns string | null: [isNull, value].
Null == [isNull |-> TRUE, value |-> <<>>]
Str(v) == [isNull |-> FALSE, value |-> v]
get(headers, name) == IF has(headers, name) THEN Str(headers[name]) ELSE Null
\* JavaScript truthiness of a string | null: neither null nor "".
Truthy(x) == ~x.isNull /\ x.value # <<>>

(***************************************************************************)
(* config.ts                                                               *)
(***************************************************************************)
\* config.methods
methods == <<<<"G", "E", "T">>, <<"H", "E", "A", "D">>, <<"P", "O", "S", "T">>, <<"O", "P", "T", "I", "O", "N", "S">>, <<"P", "A", "T", "C", "H">>>>
\* config.allowHeaders
allowHeaders == <<<<"C", "o", "n", "t", "e", "n", "t", "-", "T", "y", "p", "e">>>>
\* Fallback of Access-Control-Max-Age when config.maxAge is null/undefined.
DefaultMaxAge == 86400

ExampleCom == <<"h", "t", "t", "p", "s", ":", "/", "/", "e", "x", "a", "m", "p", "l", "e", ".", "c", "o", "m">>
ExampleNet == <<"h", "t", "t", "p", "s", ":", "/", "/", "e", "x", "a", "m", "p", "l", "e", ".", "n", "e", "t">>
Wildcard == <<"*">>
ReflectToken == <<":", "o", "r", "i", "g", "i", "n">>

\* config.host is '*', ':origin', one origin, or an array of origins.
HostValues ==
  { [isArray |-> FALSE, value |-> Wildcard, list |-> <<>>],
    [isArray |-> FALSE, value |-> ReflectToken, list |-> <<>>],
    [isArray |-> FALSE, value |-> ExampleCom, list |-> <<>>],
    [isArray |-> TRUE, value |-> <<>>, list |-> <<ExampleCom, ExampleNet>>] }

\* config.maxAge: a number of seconds, or null.
MaxAgeValues ==
  { [isNull |-> TRUE, n |-> 0], [isNull |-> FALSE, n |-> 600] }

\* config.exposeHeaders
ExposeHeadersValues == { <<>>, <<<<"C", "o", "n", "t", "e", "n", "t", "-", "L", "e", "n", "g", "t", "h">>>> }

\* The static configuration objects the process may have been started with.
Configs ==
  [ host : HostValues,
    allowCredentials : BOOLEAN,
    methods : {methods},
    allowHeaders : {allowHeaders},
    exposeHeaders : ExposeHeadersValues,
    maxAge : MaxAgeValues ]

(***************************************************************************)
(* cors.ts                                                                 *)
(***************************************************************************)
\* resolveAllowOrigin with the allowlist compared without regard to case.
resolveAllowOriginIgnoreCase(cfg, req) ==
  LET originHeader == get(req.headers, "origin")
      hostConfig == cfg.host
      lowered == [i \in DOMAIN hostConfig.list |-> toLowerCase(hostConfig.list[i])]
  IN IF ~Truthy(originHeader) THEN Null
     ELSE IF hostConfig.isArray
       THEN (IF includes(lowered, toLowerCase(originHeader.value)) THEN originHeader ELSE Null)
     ELSE IF hostConfig.value = Wildcard THEN Str(Wildcard)
     ELSE IF hostConfig.value = ReflectToken THEN originHeader
     ELSE IF originHeader.value = hostConfig.value THEN Str(hostConfig.value)
     ELSE Null

\* resolveAllowOrigin(request): string | null.
resolveAllowOrigin(cfg, req) ==
  LET originHeader == get(req.headers, "origin")
      hostConfig == cfg.host
  IN IF ~Truthy(originHeader) THEN Null
     ELSE IF hostConfig.isArray
       THEN (IF includes(hostConfig.list, originHeader.value) THEN originHeader ELSE Null)
     ELSE IF hostConfig.value = Wildcard THEN Str(Wildcard)
     ELSE IF hostConfig.value = ReflectToken THEN originHeader
     ELSE IF originHeader.value = hostConfig.value THEN Str(hostConfig.value)
     ELSE Null

\* The Vary merge without the test for an Origin that is already listed.
mergeVaryAlwaysAppend(headers) ==
  LET vary == get(headers, "vary")
  IN IF Truthy(vary)
       THEN set(headers, "vary", vary.value \o <<",", " ">> \o <<"O", "r", "i", "g", "i", "n">>)
       ELSE set(headers, "vary", <<"O", "r", "i", "g", "i", "n">>)

\* The Vary merge of applyCors (lines 75-80).
mergeVary(headers) ==
  LET vary == get(headers, "vary")
  IN IF Truthy(vary)
       THEN (IF ~TestOriginRegex(vary.value)
               THEN set(headers, "vary", vary.value \o <<",", " ">> \o <<"O", "r", "i", "g", "i", "n">>)
               ELSE headers)
       ELSE set(headers, "vary", <<"O", "r", "i", "g", "i", "n">>)

\* The origin-dependent part of applyCors (lines 66-82).
applyOrigin(cfg, origin, headers) ==
  IF Truthy(origin)
    THEN LET h1 == IF ~has(headers, "access-control-allow-origin")
                     THEN set(headers, "access-control-allow-origin", origin.value)
                     ELSE headers
             h2 == IF cfg.allowCredentials /\ origin.value # Wildcard
                     THEN set(h1, "access-control-allow-credentials", <<"t", "r", "u", "e">>)
                     ELSE h1
         IN IF origin.value # Wildcard THEN mergeVary(h2) ELSE h2
    ELSE headers

\* The informational headers of applyCors (lines 84-96).
applyInformational(cfg, headers) ==
  LET h1 == IF ~has(headers, "access-control-allow-methods")
              THEN set(headers, "access-control-allow-methods", join(cfg.methods))
              ELSE headers
      h2 == IF ~has(h1, "access-control-allow-headers")
              THEN set(h1, "access-control-allow-headers", join(cfg.allowHeaders))
              ELSE h1
  IN IF Len(cfg.exposeHeaders) # 0
       THEN set(h2, "access-control-expose-headers", join(cfg.exposeHeaders))
       ELSE h2

\* applyCors(request, response): a new response, same status and body.
applyCors(cfg, req, resp) ==
  LET origin == resolveAllowOrigin(cfg, req)
      headers == applyInformational(cfg, applyOrigin(cfg, origin, resp.headers))
  IN [status |-> resp.status, statusText |-> resp.statusText,
      body |-> resp.body, headers |-> headers]

(***************************************************************************)
(* utils/responses.ts and errors.ts                                        *)
(***************************************************************************)
\* A response without a body (new Response(null, ...)).
NullBody == [kind |-> "null", code |-> "", message |-> <<"", <<>>>>]
\* JSON.stringify({code, message}); the message is a template and the text
\* interpolated into it.
ErrorBody(code, template, arg) == [kind |-> "error", code |-> code, message |-> <<template, arg>>]
\* JSON.stringify(data) of a success payload, and a plain-text payload.
JsonBody(what) == [kind |-> "json", code |-> "", message |-> <<what, <<>>>>]
TextBody(what) == [kind |-> "text", code |-> "", message |-> <<what, <<>>>>]

\* JSON_HEADERS
JSON_HEADERS ==
  ("content-type" :> <<"a", "p", "p", "l", "i", "c", "a", "t", "i", "o", "n", "/", "j", "s", "o", "n", ";", "c", "h", "a", "r", "s", "e", "t", "=", "U", "T", "F", "-", "8">>)
    @@ ("cache-control" :> <<"n", "o", "-", "s", "t", "o", "r", "e">>)
    @@ ("x-content-type-options" :> <<"n", "o", "s", "n", "i", "f", "f">>)

\* errorResponse(status, code, message)
errorResponse(status, code, template, arg) ==
  [status |-> status, statusText |-> "", body |-> ErrorBody(code, template, arg),
   headers |-> JSON_HEADERS]

\* successResponse(data, {status: 200})
successResponse(what) ==
  [status |-> 200, statusText |-> "", body |-> JsonBody(what), headers |-> JSON_HEADERS]

\* noContentResponse({headers}): 204, adds the cache/sniffing headers if absent.
noContentResponse(initHeaders) ==
  LET h1 == IF ~has(initHeaders, "cache-control")
              THEN set(initHeaders, "cache-control", <<"n", "o", "-", "s", "t", "o", "r", "e">>)
              ELSE initHeaders
      h2 == IF ~has(h1, "x-content-type-options")
              THEN set(h1, "x-content-type-options", <<"n", "o", "s", "n", "i", "f", "f">>)
              ELSE h1
  IN [status |-> 204, statusText |-> "", body |-> NullBody, headers |-> h2]

(***************************************************************************)
(* cors.ts: the preflight builder                                          *)
(***************************************************************************)
\* The requested header names without the trim.
requestedHeadersUntrimmed(reqHeaders) == filterBoolean(split(reqHeaders, ","))

\* The requested header names: split(',').map(trim).filter(Boolean).
requestedHeaders(reqHeaders) ==
  LET parts == split(reqHeaders, ",")
  IN filterBoolean([i \in DOMAIN parts |-> trim(parts[i])])

\* config.allowHeaders.map(h => h.toLowerCase())
allowedLower(cfg) == [i \in DOMAIN cfg.allowHeaders |-> toLowerCase(cfg.allowHeaders[i])]

\* The loop reporting the last requested header that fails instead of
\* stopping at the first.
RECURSIVE lastDisallowed(_, _)
lastDisallowed(cfg, requested) ==
  IF requested = <<>> THEN Null
  ELSE IF ~lastDisallowed(cfg, Tail(requested)).isNull THEN lastDisallowed(cfg, Tail(requested))
  ELSE IF ~includes([i \in DOMAIN cfg.allowHeaders |-> toLowerCase(cfg.allowHeaders[i])],
                    toLowerCase(Head(requested)))
    THEN Str(Head(requested))
  ELSE Null

\* The loop over the requested headers (lines 134-142): the header it stops
\* at, or null when every requested header passes.
RECURSIVE firstDisallowed(_, _)
firstDisallowed(cfg, requested) ==
  IF requested = <<>> THEN Null
  ELSE IF ~includes(allowedLower(cfg), toLowerCase(Head(requested))) THEN Str(Head(requested))
  ELSE firstDisallowed(cfg, Tail(requested))

\* The preflight headers with credentials granted whatever origin was resolved.
preflightHeadersCredentialsAnyOrigin(cfg, origin, reqHeaders, headers0) ==
  LET h1 == set(headers0, "access-control-allow-methods", join(cfg.methods))
      h2 == IF Truthy(reqHeaders)
              THEN set(h1, "access-control-allow-headers",
                       join(requestedHeaders(reqHeaders.value)))
              ELSE set(h1, "access-control-allow-headers", join(cfg.allowHeaders))
      h3 == set(h2, "access-control-max-age",
                String(IF ~cfg.maxAge.isNull THEN cfg.maxAge.n ELSE DefaultMaxAge))
      h4 == IF cfg.allowCredentials /\ Truthy(origin)
              THEN set(h3, "access-control-allow-credentials", <<"t", "r", "u", "e">>)
              ELSE h3
      h5 == IF Len(cfg.exposeHeaders) # 0
              THEN set(h4, "access-control-expose-headers", join(cfg.exposeHeaders))
              ELSE h4
  IN IF Truthy(origin) /\ origin.value # Wildcard THEN set(h5, "vary", <<"O", "r", "i", "g", "i", "n">>) ELSE h5

\* The headers of a successful preflight after the validations (lines 124-166).
preflightHeaders(cfg, origin, reqHeaders, headers0) ==
  LET h1 == set(headers0, "access-control-allow-methods", join(cfg.methods))
      h2 == IF Truthy(reqHeaders)
              THEN set(h1, "access-control-allow-headers",
                       join(requestedHeaders(reqHeaders.value)))
              ELSE set(h1, "access-control-allow-headers", join(cfg.allowHeaders))
      h3 == set(h2, "access-control-max-age",
                String(IF ~cfg.maxAge.isNull THEN cfg.maxAge.n ELSE DefaultMaxAge))
      h4 == IF cfg.allowCredentials /\ Truthy(origin) /\ origin.value # Wildcard
              THEN set(h3, "access-control-allow-credentials", <<"t", "r", "u", "e">>)
              ELSE h3
      h5 == IF Len(cfg.exposeHeaders) # 0
              THEN set(h4, "access-control-expose-headers", join(cfg.exposeHeaders))
              ELSE h4
  IN IF Truthy(origin) /\ origin.value # Wildcard THEN set(h5, "vary", <<"O", "r", "i", "g", "i", "n">>) ELSE h5

\* buildPreflightResponse with the requested headers validated before the
\* requested method.
buildPreflightResponseHeadersFirst(cfg, req) ==
  LET origin == resolveAllowOrigin(cfg, req)
      headers0 == IF Truthy(origin)
                    THEN set(NoHeaders, "access-control-allow-origin", origin.value)
                    ELSE NoHeaders
      acrm == get(req.headers, "access-control-request-method")
      reqHeaders == get(req.headers, "access-control-request-headers")
      bad == IF Truthy(reqHeaders)
               THEN firstDisallowed(cfg, requestedHeaders(reqHeaders.value))
               ELSE Null
  IN IF ~bad.isNull
       THEN errorResponse(400, "CORS_HEADER_NOT_ALLOWED", "CORS header not allowed: ${h}", bad.value)
     ELSE IF Truthy(acrm) /\ ~includes(cfg.methods, toUpperCase(acrm.value))
       THEN errorResponse(405, "METHOD_NOT_ALLOWED", "Method ${acrm} not allowed", acrm.value)
     ELSE [status |-> 204, statusText |-> "", body |-> NullBody,
           headers |-> preflightHeaders(cfg, origin, reqHeaders, headers0)]

\* buildPreflightResponse(request)
buildPreflightResponse(cfg, req) ==
  LET origin == resolveAllowOrigin(cfg, req)
      headers0 == IF Truthy(origin)
                    THEN set(NoHeaders, "access-control-allow-origin", origin.value)
                    ELSE NoHeaders
      acrm == get(req.headers, "access-control-request-method")
      reqHeaders == get(req.headers, "access-control-request-headers")
      bad == IF Truthy(reqHeaders)
               THEN firstDisallowed(cfg, requestedHeaders(reqHeaders.value))
               ELSE Null
  IN IF Truthy(acrm) /\ ~includes(cfg.methods, toUpperCase(acrm.value))
       THEN errorResponse(405, "METHOD_NOT_ALLOWED", "Method ${acrm} not allowed", acrm.value)
     ELSE IF ~bad.isNull
       THEN errorResponse(400, "CORS_HEADER_NOT_ALLOWED", "CORS header not allowed: ${h}", bad.value)
     ELSE [status |-> 204, statusText |-> "", body |-> NullBody,
           headers |-> preflightHeaders(cfg, origin, reqHeaders, headers0)]

(***************************************************************************)
(* routes/home.ts, routes/all_json.ts                                      *)
(***************************************************************************)
\* getHome(request): the caller's address (or 'Unknown') as plain text.
getHome(req) ==
  [status |-> 200, statusText |-> "", body |-> TextBody("ip"),
   headers |-> ("content-type" :> <<"t", "e", "x", "t", "/", "p", "l", "a", "i", "n", ";", " ", "c", "h", "a", "r", "s", "e", "t", "=", "u", "t", "f", "-", "8">>)
                 @@ ("cache-control" :> <<"n", "o", "-", "s", "t", "o", "r", "e">>)
                 @@ ("x-content-type-options" :> <<"n", "o", "s", "n", "i", "f", "f">>)]

\* getAllJson with the platform metadata tested before the method.
getAllJsonMetadataFirst(req) ==
  IF req.cf = "absent"
    THEN errorResponse(500, "ENV_PLATFORM_METADATA_MISSING", "Platform metadata unavailable", <<>>)
  ELSE IF req.method # <<"G", "E", "T">> /\ req.method # <<"H", "E", "A", "D">>
    THEN errorResponse(405, "METHOD_NOT_ALLOWED", "Method not allowed", <<>>)
  ELSE IF req.method = <<"H", "E", "A", "D">>
    THEN [status |-> 200, statusText |-> "", body |-> NullBody, headers |-> JSON_HEADERS]
  ELSE IF req.cf = "throws"
    THEN errorResponse(500, "INTERNAL_SERVER_ERROR", "Internal Server Error", <<>>)
  ELSE successResponse("ipInfo")

\* getAllJson(request): request.cf is "absent", "present", or "throws" when
\* formatting its fields raises.
getAllJson(req) ==
  IF req.method # <<"G", "E", "T">> /\ req.method # <<"H", "E", "A", "D">>
    THEN errorResponse(405, "METHOD_NOT_ALLOWED", "Method not allowed", <<>>)
  ELSE IF req.cf = "absent"
    THEN errorResponse(500, "ENV_PLATFORM_METADATA_MISSING", "Platform metadata unavailable", <<>>)
  ELSE IF req.method = <<"H", "E", "A", "D">>
    THEN [status |-> 200, statusText |-> "", body |-> NullBody, headers |-> JSON_HEADERS]
  ELSE IF req.cf = "throws"
    THEN errorResponse(500, "INTERNAL_SERVER_ERROR", "Internal Server Error", <<>>)
  ELSE successResponse("ipInfo")

\* What getAllJson does on the way to its result: the header reads and the
\* sanitizer call of lines 33-39 happen only on the GET path, after the
\* method, metadata and HEAD exits and before the metadata is formatted.
getAllJsonTrace(req) ==
  IF req.method # <<"G", "E", "T">> /\ req.method # <<"H", "E", "A", "D">> THEN <<"getAllJson">>
  ELSE IF req.cf = "absent" THEN <<"getAllJson">>
  ELSE IF req.method = <<"H", "E", "A", "D">> THEN <<"getAllJson">>
  ELSE <<"getAllJson", "headers.get(CF-Connecting-IP)", "validateAndCleanIP",
         "headers.get(User-Agent)">>

\* What getHome does: it reads the address header and sanitizes it.
getHomeTrace(req) == <<"getHome", "headers.get(CF-Connecting-IP)", "validateAndCleanIP">>

(***************************************************************************)
(* handler.ts                                                              *)
(***************************************************************************)
\* listApi (config.ts)
listApi ==
  [health |-> "/health", home |-> "/", all_json |-> "/all.json",
   cf_json |-> "/cf.json", headers |-> "/headers"]

\* handleRequest with the health route also matching a trailing slash.
handleRequestTrailingSlash(cfg, req) ==
  IF ~includes(cfg.methods, req.method)
    THEN errorResponse(405, "METHOD_NOT_ALLOWED", "Method not allowed", <<>>)
  ELSE IF req.path \in {listApi.health, "/health/"} THEN successResponse("health")
  ELSE IF req.path = listApi.home THEN getHome(req)
  ELSE IF req.path = listApi.all_json THEN getAllJson(req)
  ELSE IF req.path = listApi.cf_json THEN successResponse("cf")
  ELSE IF req.path = listApi.headers THEN successResponse("headers")
  ELSE errorResponse(404, "NOT_FOUND", "Request path not defined", <<>>)

\* handleRequest(request): req.path is new URL(request.url).pathname.
handleRequest(cfg, req) ==
  IF ~includes(cfg.methods, req.method)
    THEN errorResponse(405, "METHOD_NOT_ALLOWED", "Method not allowed", <<>>)
  ELSE IF req.path = listApi.health THEN successResponse("health")
  ELSE IF req.path = listApi.home THEN getHome(req)
  ELSE IF req.path = listApi.all_json THEN getAllJson(req)
  ELSE IF req.path = listApi.cf_json THEN successResponse("cf")
  ELSE IF req.path = listApi.headers THEN successResponse("headers")
  ELSE errorResponse(404, "NOT_FOUND", "Request path not defined", <<>>)

\* What handleRequest does on the way to its result: its own method
\* rejection, or the route handler it calls.
handleRequestTrace(cfg, req) ==
  <<"handleRequest">> \o
    (IF ~includes(cfg.methods, req.method) THEN <<"handleRequest:METHOD_NOT_ALLOWED">>
     ELSE IF req.path = listApi.home THEN getHomeTrace(req)
     ELSE IF req.path = listApi.all_json THEN getAllJsonTrace(req)
     ELSE <<>>)

\* The test of handleOptions reduced to the Origin header.
isPreflightOriginOnly(req) == ~get(req.headers, "origin").isNull

\* The test of handleOptions: all three CORS request headers are non-null.
isPreflight(req) ==
  /\ ~get(req.headers, "origin").isNull
  /\ ~get(req.headers, "access-control-request-method").isNull
  /\ ~get(req.headers, "access-control-request-headers").isNull

\* handleOptions(request)
handleOptions(cfg, req) ==
  IF isPreflight(req)
    THEN buildPreflightResponse(cfg, req)
    ELSE noContentResponse(set(NoHeaders, "allow", join(cfg.methods)))

(***************************************************************************)
(* State                                                                   *)
(***************************************************************************)
NoRequest == [method |-> <<>>, path |-> "", headers |-> NoHeaders, cf |-> "absent"]
NoResponse == [status |-> 0, statusText |-> "", body |-> NullBody, headers |-> NoHeaders]

\* The process starts with its static configuration and no request in hand.
Init ==
  /\ config \in Configs
  /\ request = NoRequest
  /\ upstream = NoResponse
  /\ response = NoResponse
  /\ second = NoResponse
  /\ pc = "idle"
  /\ calls = <<>>

\* A header collection with the given optional values: each of `pairs` is
\* <<name, string | null>>.
RECURSIVE headersOf(_)
headersOf(pairs) ==
  IF pairs = <<>> THEN NoHeaders
  ELSE LET rest == headersOf(Tail(pairs))
       IN IF pairs[1][2].isNull THEN rest ELSE set(rest, pairs[1][1], pairs[1][2].value)

\* All sequences over S of length at most n.
SeqsUpTo(S, n) == UNION {[1..k -> S] : k \in 0..n}

\* Array.prototype.join(',') of raw text pieces.
RECURSIVE joinComma(_)
joinComma(list) ==
  IF list = <<>> THEN <<>>
  ELSE IF Len(list) = 1 THEN list[1]
  ELSE list[1] \o <<",">> \o joinComma(Tail(list))

\* Values of the request's Origin header (null: no such header).
OriginValues ==
  { Null, Str(<<>>), Str(Wildcard), Str(ExampleCom), Str(ExampleNet),
    Str(<<"h", "t", "t", "p", "s", ":", "/", "/", "E", "X", "A", "M", "P", "L", "E", ".", "c", "o", "m">>), Str(<<"h", "t", "t", "p", "s", ":", "/", "/", "e", "x", "a", "m", "p", "l", "e", ".", "c", "o", "m", ".", "e", "v", "i", "l", ".", "i", "o">>) }

(***************************************************************************)
(* The entry point, worker.ts: fetch(request)                              *)
(***************************************************************************)
\* request.method values.
MethodValues == { <<"G", "E", "T">>, <<"H", "E", "A", "D">>, <<"P", "O", "S", "T">>, <<"O", "P", "T", "I", "O", "N", "S">>, <<"D", "E", "L", "E", "T", "E">>, <<"p", "a", "t", "c", "h">> }
\* URL pathnames.
PathValues ==
  { "/health", "/", "/all.json", "/cf.json", "/headers", "/health/", "/all.json/x", "/Health" }
FetchOrigins == { Null, Str(<<>>), Str(ExampleCom), Str(<<"h", "t", "t", "p", "s", ":", "/", "/", "e", "x", "a", "m", "p", "l", "e", ".", "c", "o", "m", ".", "e", "v", "i", "l", ".", "i", "o">>) }
FetchReqMethods == { Null, Str(<<"P", "O", "S", "T">>), Str(<<"D", "E", "L", "E", "T", "E">>) }
FetchReqHeaders == { Null, Str(<<"c", "o", "n", "t", "e", "n", "t", "-", "t", "y", "p", "e">>), Str(<<"X", "-", "F", "o", "o">>) }

\* The platform hands fetch a request.
Receive ==
  /\ pc = "idle"
  /\ \E m \in MethodValues, p \in PathValues, o \in FetchOrigins,
        rm \in FetchReqMethods, rh \in FetchReqHeaders, cf \in {"absent", "present", "throws"} :
       request' = [method |-> m, path |-> p, cf |-> cf,
                   headers |-> headersOf(<< <<"origin", o>>,
                                            <<"access-control-request-method", rm>>,
                                            <<"access-control-request-headers", rh>> >>)]
  /\ pc' = "fetch"
  /\ UNCHANGED <<config, upstream, response, second, calls>>

\* The method gate returning its 405 without the CORS wrapping.
FetchMethodGateUnwrapped ==
  /\ pc = "fetch"
  /\ ~includes(config.methods, request.method)
  /\ upstream' = [status |-> 405, statusText |-> "Method Not Allowed",
                  body |-> NullBody, headers |-> NoHeaders]
  /\ response' = upstream'
  /\ calls' = calls
  /\ pc' = "done"
  /\ UNCHANGED <<config, request, second>>

\* fetch, lines 102-112: the method gate.
FetchMethodGate ==
  /\ pc = "fetch"
  /\ ~includes(config.methods, request.method)
  /\ upstream' = [status |-> 405, statusText |-> "Method Not Allowed",
                  body |-> NullBody, headers |-> NoHeaders]
  /\ response' = applyCors(config, request, upstream')
  /\ calls' = calls \o <<"applyCors">>
  /\ pc' = "done"
  /\ UNCHANGED <<config, request, second>>

\* fetch, lines 114-116: OPTIONS goes to handleOptions and is returned as is.
FetchOptions ==
  /\ pc = "fetch"
  /\ includes(config.methods, request.method)
  /\ request.method = <<"O", "P", "T", "I", "O", "N", "S">>
  /\ response' = handleOptions(config, request)
  /\ calls' = calls \o <<"handleOptions">>
                \o (IF isPreflight(request) THEN <<"buildPreflightResponse">>
                                            ELSE <<"noContentResponse">>)
  /\ pc' = "done"
  /\ UNCHANGED <<config, request, upstream, second>>

\* fetch, line 117: await handleRequest(request).
FetchDispatch ==
  /\ pc = "fetch"
  /\ includes(config.methods, request.method)
  /\ request.method # <<"O", "P", "T", "I", "O", "N", "S">>
  /\ upstream' = handleRequest(config, request)
  /\ calls' = calls \o handleRequestTrace(config, request)
  /\ pc' = "await"
  /\ UNCHANGED <<config, request, response, second>>

\* fetch, line 118: return applyCors(request, resp).
FetchWrap ==
  /\ pc = "await"
  /\ response' = applyCors(config, request, upstream)
  /\ calls' = calls \o <<"applyCors">>
  /\ pc' = "done"
  /\ UNCHANGED <<config, request, upstream, second>>

Next == Receive \/ FetchMethodGate \/ FetchOptions \/ FetchDispatch \/ FetchWrap

Spec == Init /\ [][Next]_vars

(***************************************************************************)
(* The CORS engine on its own: applyCors and buildPreflightResponse        *)
(* applied to requests and responses drawn from bounded sets.              *)
(***************************************************************************)
\* Pre-existing Vary values: up to MaxVaryTokens tokens joined by ', '.
VaryTokens == { <<"o", "r", "i", "g", "i", "n">>, <<"A", "c", "c", "e", "p", "t", "-", "E", "n", "c", "o", "d", "i", "n", "g">>, <<"X", "-", "O", "r", "i", "g", "i", "n">> }
VaryValues == {Null} \cup {Str(join(ts)) : ts \in SeqsUpTo(VaryTokens, MaxVaryTokens)}

\* Pre-existing Access-Control-Allow-Origin values set by an upstream handler.
UpstreamOrigins == { Null, Str(Wildcard), Str(<<"h", "t", "t", "p", "s", ":", "/", "/", "u", "p", ".", "e", "x", "a", "m", "p", "l", "e">>) }

\* Informational headers an upstream handler may have set already.
UpstreamInformational ==
  { <<Null, Null>>, <<Str(<<"G", "E", "T">>), Str(<<"X", "-", "U", "p">>)>> }

\* Responses handed to applyCors.
UpstreamResponses ==
  { [status |-> b.status, statusText |-> b.statusText, body |-> b.body,
     headers |-> headersOf(<< <<"access-control-allow-origin", o>>, <<"vary", v>>,
                              <<"access-control-allow-methods", i[1]>>,
                              <<"access-control-allow-headers", i[2]>> >>) @@ b.headers] :
      b \in { successResponse("health"),
              [status |-> 405, statusText |-> "Method Not Allowed",
               body |-> NullBody, headers |-> NoHeaders] },
      o \in UpstreamOrigins, v \in VaryValues, i \in UpstreamInformational }

\* A request as the CORS engine reads it: only its headers matter.
CorsRequest(m, o, rm, rh) ==
  [method |-> m, path |-> "/", cf |-> "present",
   headers |-> headersOf(<< <<"origin", o>>,
                            <<"access-control-request-method", rm>>,
                            <<"access-control-request-headers", rh>> >>)]

\* applyCors(request, response)
WrapResponse ==
  /\ pc = "idle"
  /\ \E o \in OriginValues, r \in UpstreamResponses :
       /\ request' = CorsRequest(<<"G", "E", "T">>, o, Null, Null)
       /\ upstream' = r
       /\ response' = applyCors(config, request', r)
  /\ calls' = calls \o <<"applyCors">>
  /\ pc' = "wrapped"
  /\ UNCHANGED <<config, second>>

\* applyCors(request, applyCors(request, response))
WrapAgain ==
  /\ pc = "wrapped"
  /\ second' = applyCors(config, request, response)
  /\ calls' = calls \o <<"applyCors">>
  /\ pc' = "rewrapped"
  /\ UNCHANGED <<config, request, upstream, response>>

\* Values of Access-Control-Request-Method.
ReqMethodValues == { Null, Str(<<>>), Str(<<"p", "a", "t", "c", "h">>), Str(<<"D", "E", "L", "E", "T", "E">>) }
\* Values of Access-Control-Request-Headers: up to MaxReqHeaders raw entries
\* joined by ','; the Headers class strips the value's outer white space.
RawReqHeaders == { <<" ", "c", "o", "n", "t", "e", "n", "t", "-", "t", "y", "p", "e">>, <<"X", "-", "F", "o", "o", " ">>, <<" ", "X", "-", "B", "a", "r">>, <<>> }
ReqHeadersValues ==
  {Null} \cup {Str(trim(joinComma(hs))) : hs \in SeqsUpTo(RawReqHeaders, MaxReqHeaders)}

\* buildPreflightResponse(request)
Preflight ==
  /\ pc = "idle"
  /\ \E o \in OriginValues, rm \in ReqMethodValues, rh \in ReqHeadersValues :
       /\ request' = CorsRequest(<<"O", "P", "T", "I", "O", "N", "S">>, o, rm, rh)
       /\ response' = buildPreflightResponse(config, request')
  /\ calls' = calls \o <<"buildPreflightResponse">>
  /\ pc' = "preflighted"
  /\ UNCHANGED <<config, upstream, second>>

\* The normal response to the request the preflight was about: applyCors on
\* a handler's response that carries no CORS header.
WrapNormal ==
  /\ pc = "preflighted"
  /\ upstream' = successResponse("health")
  /\ second' = applyCors(config, request, upstream')
  /\ calls' = calls \o <<"applyCors">>
  /\ pc' = "compared"
  /\ UNCHANGED <<config, request, response>>

NextCors == WrapResponse \/ WrapAgain \/ Preflight \/ WrapNormal

SpecCors == Init /\ [][NextCors]_vars

(***************************************************************************)
(* Vocabulary of the properties                                            *)
(***************************************************************************)
ACAO == "access-control-allow-origin"
ACAC == "access-control-allow-credentials"
ACAM == "access-control-allow-methods"
ACAH == "access-control-allow-headers"

\* The four origin policies, as config.host encodes them.
Policy(cfg) ==
  IF cfg.host.isArray THEN "Allowlist"
  ELSE IF cfg.host.value = Wildcard THEN "Any"
  ELSE IF cfg.host.value = ReflectToken THEN "Reflect"
  ELSE "Fixed"

\* The request's Origin header.
OriginOf(req) == get(req.headers, "origin")

\* The allow-origin value the policy table prescribes for an Origin header
\* that counts as given.
PolicyTable(cfg, o) ==
  CASE Policy(cfg) = "Any" -> Str(Wildcard)
    [] Policy(cfg) = "Reflect" -> o
    [] Policy(cfg) = "Fixed" -> IF o.value = cfg.host.value THEN Str(cfg.host.value) ELSE Null
    [] Policy(cfg) = "Allowlist" ->
         IF \E i \in DOMAIN cfg.host.list : cfg.host.list[i] = o.value THEN o ELSE Null

\* The tokens of a Vary value (null or empty: none).
TokensOf(v) ==
  IF ~Truthy(v) THEN <<>>
  ELSE LET parts == split(v.value, ",") IN [i \in DOMAIN parts |-> trim(parts[i])]
\* How many of the tokens are Origin, in any casing.
OriginCount(v) ==
  Cardinality({i \in DOMAIN TokensOf(v) : toLowerCase(TokensOf(v)[i]) = <<"o", "r", "i", "g", "i", "n">>})
IsPrefix(s, u) == Len(s) <= Len(u) /\ SubSeq(u, 1, Len(s)) = s

\* Names of the Access-Control-* headers present in a header collection.
AccessControlIn(headers) ==
  {n \in DOMAIN headers :
     n \in {ACAO, ACAC, ACAM, ACAH, "access-control-expose-headers", "access-control-max-age"}}

(***************************************************************************)
(* C1. applyCors on a response without allow-origin: the output's          *)
(* Access-Control-Allow-Origin is absent when the request has no Origin    *)
(* header, and otherwise follows the policy table ('*' under Any, the      *)
(* Origin under Reflect, the fixed origin on an exact match, the Origin on *)
(* an exact allowlist match, absent otherwise).                            *)
(***************************************************************************)
\* C1 as stated: only a missing Origin header suppresses the table.
C1_AllowOriginAsStated ==
  (pc = "wrapped" /\ ~has(upstream.headers, ACAO)) =>
    get(response.headers, ACAO) =
      (IF OriginOf(request).isNull THEN Null ELSE PolicyTable(config, OriginOf(request)))

\* C1 amended: allow-origin is absent when the Origin header is missing or
\* empty, and follows the policy table otherwise.
C1_AllowOrigin ==
  (pc = "wrapped" /\ ~has(upstream.headers, ACAO)) =>
    get(response.headers, ACAO) =
      (IF OriginOf(request).isNull \/ OriginOf(request).value = <<>>
         THEN Null ELSE PolicyTable(config, OriginOf(request)))

\* An allowlisted origin was granted, under the allowlist policy.
C1_Witness ==
  /\ pc = "wrapped"
  /\ ~has(upstream.headers, ACAO)
  /\ Policy(config) = "Allowlist"
  /\ OriginOf(request) = Str(ExampleNet)
  /\ get(response.headers, ACAO) = Str(ExampleNet)

(***************************************************************************)
(* C2. After applyCors: when the resolved origin is present and not the    *)
(* wildcard, the output Vary lists the token Origin exactly once (in any   *)
(* casing) after the pre-existing tokens, which keep their order; when it  *)
(* is absent or the wildcard, Vary is the input's Vary unchanged.          *)
(* (Inputs that already list Origin twice are left out of the first part.) *)
(***************************************************************************)
C2_VaryOriginOnce ==
  pc = "wrapped" =>
    LET origin == resolveAllowOrigin(config, request)
        before == get(upstream.headers, "vary")
        after == get(response.headers, "vary")
    IN IF Truthy(origin) /\ origin.value # Wildcard
         THEN OriginCount(before) <= 1 =>
                /\ OriginCount(after) = 1
                /\ IsPrefix(TokensOf(before), TokensOf(after))
         ELSE after = before

(***************************************************************************)
(* C3. No response of applyCors or buildPreflightResponse carries          *)
(* Access-Control-Allow-Credentials: true together with                    *)
(* Access-Control-Allow-Origin: *, and the credentials header is there     *)
(* only if credentials-sharing is enabled and a non-wildcard origin was    *)
(* resolved.                                                               *)
(***************************************************************************)
C3_NoCredentialsWithWildcard ==
  pc \in {"wrapped", "preflighted"} =>
    /\ ~(/\ get(response.headers, ACAC) = Str(<<"t", "r", "u", "e">>)
         /\ get(response.headers, ACAO) = Str(Wildcard))
    /\ has(response.headers, ACAC) =>
         /\ config.allowCredentials
         /\ Truthy(resolveAllowOrigin(config, request))
         /\ resolveAllowOrigin(config, request).value # Wildcard

(***************************************************************************)
(* C4. applyCors is idempotent: wrapping the wrapped response again, for   *)
(* the same request, gives the same headers, status and body.              *)
(***************************************************************************)
C4_Idempotent == pc = "rewrapped" => second = response

\* Origin was merged into an existing Vary by the first wrap, and the second
\* wrap has run.
C4_Witness ==
  /\ pc = "rewrapped"
  /\ get(upstream.headers, "vary") = Str(<<"A", "c", "c", "e", "p", "t", "-", "E", "n", "c", "o", "d", "i", "n", "g">>)
  /\ get(response.headers, "vary") = Str(<<"A", "c", "c", "e", "p", "t", "-", "E", "n", "c", "o", "d", "i", "n", "g", ",", " ", "O", "r", "i", "g", "i", "n">>)
  /\ has(upstream.headers, ACAO)
  /\ has(response.headers, ACAC)

\* The entries of an Access-Control-Request-Headers value: split on commas,
\* trimmed, empty entries dropped.
EntriesOf(v) ==
  LET parts == split(v, ",")
  IN SelectSeq([i \in DOMAIN parts |-> trim(parts[i])], LAMBDA e : e # <<>>)
\* Case-insensitive membership in the static header allowlist.
IsAllowedHeader(e) == \E j \in DOMAIN allowHeaders : toLowerCase(allowHeaders[j]) = toLowerCase(e)
ReqMethodOf(req) == get(req.headers, "access-control-request-method")
ReqHeadersOf(req) == get(req.headers, "access-control-request-headers")
\* The requested method is missing or empty, or its upper-casing is allowed.
MethodCheckPassed(req) ==
  \/ ~Truthy(ReqMethodOf(req))
  \/ \E j \in DOMAIN methods : methods[j] = toUpperCase(ReqMethodOf(req).value)
\* A plain JSON error: the code, and no CORS or Vary header.
PlainError(resp, status, code) ==
  /\ resp.status = status
  /\ resp.body.kind = "error"
  /\ resp.body.code = code
  /\ AccessControlIn(resp.headers) = {}
  /\ ~has(resp.headers, "vary")

(***************************************************************************)
(* C5. A successful (204) preflight carries the same                       *)
(* Access-Control-Allow-Origin, Access-Control-Allow-Credentials and Vary  *)
(* as applyCors puts on a normal response, free of those headers, to the   *)
(* same request.                                                           *)
(***************************************************************************)
C5_PreflightAgreesWithNormal ==
  (pc = "compared" /\ response.status = 204) =>
    \A n \in {ACAO, ACAC, "vary"} : get(response.headers, n) = get(second.headers, n)

\* A preflight that granted an origin with credentials, compared with the
\* normal response.
C5_Witness ==
  /\ pc = "compared"
  /\ response.status = 204
  /\ get(response.headers, ACAO) = Str(ExampleCom)
  /\ get(response.headers, ACAC) = Str(<<"t", "r", "u", "e">>)
  /\ get(second.headers, "vary") = Str(<<"O", "r", "i", "g", "i", "n">>)

(***************************************************************************)
(* C6. A preflight whose Access-Control-Request-Method is present and,     *)
(* upper-cased, not in the method allowlist is answered 405                *)
(* METHOD_NOT_ALLOWED without any allow-origin, Vary or Access-Control-*   *)
(* header, whatever the Origin, the policy and the requested headers.      *)
(***************************************************************************)
\* C6 as stated: any present value, the empty one included.
C6_MethodRejectedAsStated ==
  (/\ pc = "preflighted"
   /\ ~ReqMethodOf(request).isNull
   /\ ~\E j \in DOMAIN methods : methods[j] = toUpperCase(ReqMethodOf(request).value))
    => PlainError(response, 405, "METHOD_NOT_ALLOWED")

\* C6 amended: the requested method is present and not empty.
C6_MethodRejected ==
  (/\ pc = "preflighted"
   /\ ~ReqMethodOf(request).isNull
   /\ ReqMethodOf(request).value # <<>>
   /\ ~\E j \in DOMAIN methods : methods[j] = toUpperCase(ReqMethodOf(request).value))
    => PlainError(response, 405, "METHOD_NOT_ALLOWED")

\* DELETE requested together with a header that is not allowed, from an
\* allowed origin: the method rejection wins.
C6_Witness ==
  /\ pc = "preflighted"
  /\ ReqMethodOf(request) = Str(<<"D", "E", "L", "E", "T", "E">>)
  /\ ReqHeadersOf(request) = Str(<<"X", "-", "F", "o", "o">>)
  /\ Truthy(resolveAllowOrigin(config, request))
  /\ response.status = 405
  /\ response.body.message[2] = <<"D", "E", "L", "E", "T", "E">>

(***************************************************************************)
(* C7. A preflight that passes the method check and requests at least one  *)
(* header outside the header allowlist (case-insensitively) is answered    *)
(* 400 CORS_HEADER_NOT_ALLOWED naming the first such entry in request      *)
(* order, without any Access-Control-* or Vary header.                     *)
(***************************************************************************)
C7_HeaderRejected ==
  (/\ pc = "preflighted"
   /\ MethodCheckPassed(request)
   /\ ~ReqHeadersOf(request).isNull
   /\ \E i \in DOMAIN EntriesOf(ReqHeadersOf(request).value) :
        ~IsAllowedHeader(EntriesOf(ReqHeadersOf(request).value)[i]))
    => LET es == EntriesOf(ReqHeadersOf(request).value)
           bad == {i \in DOMAIN es : ~IsAllowedHeader(es[i])}
           k == CHOOSE i \in bad : \A j \in bad : i <= j
       IN /\ PlainError(response, 400, "CORS_HEADER_NOT_ALLOWED")
          /\ response.body.message[2] = es[k]

\* Two different headers outside the allowlist: the first is the one named.
C7_Witness ==
  /\ pc = "preflighted"
  /\ ReqHeadersOf(request) = Str(<<"X", "-", "F", "o", "o", " ", ",", " ", "X", "-", "B", "a", "r">>)
  /\ response.status = 400
  /\ response.body.message[2] = <<"X", "-", "F", "o", "o">>

(***************************************************************************)
(* C8. A preflight that passes both validations is answered 204 without a  *)
(* body, with allow-methods the full method allowlist, max-age the         *)
(* configured value (86400 if unset), and allow-headers the requested      *)
(* entries (trimmed, empties dropped, request order and casing) when an    *)
(* Access-Control-Request-Headers header was sent, the full header         *)
(* allowlist when none was.                                                *)
(***************************************************************************)
\* The part of C8 that does not depend on the requested headers.
PreflightGranted(resp) ==
  /\ resp.status = 204
  /\ resp.body = NullBody
  /\ get(resp.headers, ACAM) = Str(join(methods))
  /\ get(resp.headers, "access-control-max-age") =
       Str(String(IF config.maxAge.isNull THEN 86400 ELSE config.maxAge.n))
\* Both validations pass.
ValidationsPassed(req) ==
  /\ MethodCheckPassed(req)
  /\ ReqHeadersOf(req).isNull
       \/ \A i \in DOMAIN EntriesOf(ReqHeadersOf(req).value) :
            IsAllowedHeader(EntriesOf(ReqHeadersOf(req).value)[i])

\* C8 as stated: the echo whenever the header was sent, even empty.
C8_PreflightGrantAsStated ==
  (pc = "preflighted" /\ ValidationsPassed(request)) =>
    /\ PreflightGranted(response)
    /\ get(response.headers, ACAH) =
         (IF ReqHeadersOf(request).isNull
            THEN Str(join(allowHeaders))
            ELSE Str(join(EntriesOf(ReqHeadersOf(request).value))))

\* C8 amended: the echo when a non-empty header was sent, the full
\* allowlist when the header is missing or empty.
C8_PreflightGrant ==
  (pc = "preflighted" /\ ValidationsPassed(request)) =>
    /\ PreflightGranted(response)
    /\ get(response.headers, ACAH) =
         (IF ReqHeadersOf(request).isNull \/ ReqHeadersOf(request).value = <<>>
            THEN Str(join(allowHeaders))
            ELSE Str(join(EntriesOf(ReqHeadersOf(request).value))))

\* A lower-case request with an empty entry is echoed as asked.
C8_Witness ==
  /\ pc = "preflighted"
  /\ ReqHeadersOf(request) = Str(<<",", " ", "c", "o", "n", "t", "e", "n", "t", "-", "t", "y", "p", "e">>)
  /\ response.status = 204
  /\ get(response.headers, ACAH) = Str(<<"c", "o", "n", "t", "e", "n", "t", "-", "t", "y", "p", "e">>)
  /\ ~config.maxAge.isNull

\* The five routes of the dispatcher.
RoutePaths == {"/health", "/", "/all.json", "/cf.json", "/headers"}
IsAllowedMethod(m) == \E j \in DOMAIN methods : methods[j] = m
\* The entry point has answered an OPTIONS request.
OptionsAnswered == pc = "done" /\ request.method = <<"O", "P", "T", "I", "O", "N", "S">>

C10_ExactRoutingAsStated ==
  pc = "done" =>
    /\ (IsAllowedMethod(request.method) /\ request.path \notin RoutePaths) =>
         (response.status = 404 /\ response.body.code = "NOT_FOUND")
    /\ request.path \in RoutePaths => response.status # 404

\* C10 amended: every allowed method other than OPTIONS.
C10_ExactRouting ==
  pc = "done" =>
    /\ (/\ IsAllowedMethod(request.method)
        /\ request.method # <<"O", "P", "T", "I", "O", "N", "S">>
        /\ request.path \notin RoutePaths) =>
         (response.status = 404 /\ response.body.code = "NOT_FOUND")
    /\ request.path \in RoutePaths => response.status # 404

\* GET on the trailing-slash variant of a route is not found.
C10_Witness ==
  /\ pc = "done"
  /\ request.method = <<"G", "E", "T">>
  /\ request.path = "/health/"
  /\ response.status = 404
  /\ response.body.code = "NOT_FOUND"

\* The entry point has answered a request whose method is not allowed.
GateAnswered == pc = "done" /\ ~IsAllowedMethod(request.method)

(***************************************************************************)
(* C11. On every path, a request whose method is not in the method         *)
(* allowlist is answered 405 with a JSON error body {code, message} whose  *)
(* code is METHOD_NOT_ALLOWED.                                             *)
(***************************************************************************)
C11_GateJsonError ==
  GateAnswered =>
    /\ response.status = 405
    /\ response.body.kind = "error"
    /\ response.body.code = "METHOD_NOT_ALLOWED"

\* The dispatcher has handed a request to the /all.json handler.
AllJsonHandled == pc = "await" /\ request.path = "/all.json"
\* The handler read a request header or sanitized an address.
ReadsInCalls ==
  \E i \in DOMAIN calls :
    calls[i] \in {"headers.get(CF-Connecting-IP)", "validateAndCleanIP", "headers.get(User-Agent)"}
IsError(resp, status, code) ==
  resp.status = status /\ resp.body.kind = "error" /\ resp.body.code = code

(***************************************************************************)
(* C12. The /all.json handler decides by ordered checks: a method other    *)
(* than GET or HEAD gives 405 METHOD_NOT_ALLOWED even without platform     *)
(* metadata; otherwise missing metadata gives 500                          *)
(* ENV_PLATFORM_METADATA_MISSING for GET and HEAD alike; otherwise HEAD    *)
(* gives 200 with an empty body and the JSON headers, without reading the  *)
(* IP or User-Agent headers; otherwise GET gives 200 with the IP+metadata  *)
(* object, an exception while formatting giving 500 INTERNAL_SERVER_ERROR. *)
(***************************************************************************)
C12_AllJsonOrderedChecks ==
  AllJsonHandled =>
    IF request.method \notin { <<"G", "E", "T">>, <<"H", "E", "A", "D">> }
      THEN IsError(upstream, 405, "METHOD_NOT_ALLOWED")
    ELSE IF request.cf = "absent"
      THEN IsError(upstream, 500, "ENV_PLATFORM_METADATA_MISSING")
    ELSE IF request.method = <<"H", "E", "A", "D">>
      THEN /\ upstream.status = 200
           /\ upstream.body = NullBody
           /\ upstream.headers = JSON_HEADERS
           /\ ~ReadsInCalls
    ELSE IF request.cf = "throws"
      THEN IsError(upstream, 500, "INTERNAL_SERVER_ERROR")
    ELSE /\ upstream.status = 200
         /\ upstream.body = JsonBody("ipInfo")
         /\ upstream.headers = JSON_HEADERS

\* POST without platform metadata: the method rejection comes first.
C12_Witness ==
  /\ AllJsonHandled
  /\ request.method = <<"P", "O", "S", "T">>
  /\ request.cf = "absent"
  /\ upstream.status = 405
  /\ upstream.body.code = "METHOD_NOT_ALLOWED"
  /\ calls = <<"handleRequest", "getAllJson">>

=============================================================================
